---- MODULE Spec2Model ----
(***************************************************************************)
(* ESP-React-Control: the smart-home dashboard's reconnecting WebSocket    *)
(* channel (hooks/useWebSocket.ts), the optimistic toggle handlers         *)
(* (components/DeviceControls.tsx) and the dashboard that owns the device  *)
(* registry (SmartHomeDashboard in components/MqttMessageInput.tsx).       *)
(*                                                                         *)
(* JavaScript values are written as their literals: "true", "false",       *)
(* "undefined", "null".                                                    *)
(***************************************************************************)
EXTENDS Integers, Sequences, FiniteSets, TLC

\* ------------------------------------------------------------- bounds
\* Sockets one mount may create in the full specification.
MaxSockets == 2
\* Sockets one mount may create in the channel-only specification.
MaxChannelSockets == 7
\* Clicks on toggle buttons in one run: of the toggle specification, of the
\* registry specification and of the full specification.
MaxClicks == 3
MaxTasks == 1
MaxSpecTasks == 1
\* Inbound frames delivered in one run: of the registry specification and of
\* the full specification.
MaxFrames == 1
MaxSpecFrames == 1
\* Refresh fetches in flight at once.
MaxRefresh == 1
\* Inbound frames delivered in one run of the stream specification.
MaxStreamFrames == 3
\* Calls of deleteDevice in one run: of the deletion specification and of the
\* full specification.
MaxDeletes == 2
MaxSpecDeletes == 1

\* ---------------------------------------------------- program constants
MAX_RECONNECT_ATTEMPTS == 5

\* The effect of useWebSocket has an empty dependency list, so the
\* connectWebSocket it calls, and every handler and timer callback created
\* inside it (the recursive call included), is the closure of the first
\* render: it reads the state values of that render.
closureIsConnected == FALSE
closureReconnectAttempts == 0

VARIABLES
    phase,              \* "init" | "mounted" | "unmounted"
    sockets,            \* every WebSocket created, in creation order: its readyState
    timers,             \* reconnect timers (setTimeout 5000) pending
    isConnected,        \* useWebSocket state
    reconnectAttempts,  \* useWebSocket state
    wsErrorMessage,     \* useWebSocket's own errorMessage state
    closures,           \* history: close events since the last open event
    devices,            \* SmartHomeDashboard state: the registry
    errorMessage,       \* SmartHomeDashboard state: the notification shown
    initialFetch,       \* "idle" | "pending" | "done" | "failed"
    refreshes,          \* Refresh fetches in flight
    tasks,              \* toggle handler invocations not yet returned, in click order
    nFrames,            \* inbound frames delivered so far
    nClicks,            \* clicks on toggle buttons so far
    observed,           \* history: ids seen by fetch or upsert frame, not since deleted
    lastWriter,         \* history: per id, what wrote the record last
    carriedBoth,        \* history: a fetch or frame carried lightOn and rgbMode both true
    lastFrame,          \* history: the inbound frame delivered last
    deviceToDelete,     \* SmartHomeDashboard state: the id the modal asks about
    outbox,             \* frames the client sent: the socket and the frame
    nDeletes,           \* calls of deleteDevice so far
    unhandledRejection, \* a promise rejected with no handler attached
    frameLog,           \* history: the frames handled since the registry was set
    foldBase            \* history: the registry as the fetch set it

chanVars == <<phase, sockets, timers, isConnected, reconnectAttempts,
              wsErrorMessage, closures>>
dashVars == <<deviceToDelete, outbox, nDeletes, unhandledRejection>>
logVars == <<frameLog, foldBase>>
regVars == <<devices, errorMessage, initialFetch, refreshes, tasks, nFrames,
             nClicks, observed, lastWriter, carriedBoth, lastFrame,
             deviceToDelete, outbox, nDeletes, unhandledRejection, frameLog,
             foldBase>>
vars == <<phase, sockets, timers, isConnected, reconnectAttempts,
          wsErrorMessage, closures, devices, errorMessage, initialFetch,
          refreshes, tasks, nFrames, nClicks, observed, lastWriter,
          carriedBoth, lastFrame, deviceToDelete, outbox, nDeletes,
          unhandledRejection, frameLog, foldBase>>

\* ------------------------------------------------------ JavaScript values
Truthy(v) == v = "true"
Not(v) == IF Truthy(v) THEN "false" ELSE "true"

Ids == {"A", "B"}
\* The values the deviceId of a registry record can have.
RecordIds == Ids \cup {"undefined"}

\* wsRef.current: the socket created last (0: null).
wsRef == Len(sockets)

\* ------------------------------------------------------------- channel
\* connectWebSocket: the guard reads the closure's reconnectAttempts.
ConnectWebSocket ==
    IF closureReconnectAttempts >= MAX_RECONNECT_ATTEMPTS
    THEN /\ wsErrorMessage' = "Maximum reconnection attempts reached"
         /\ sockets' = sockets
    ELSE /\ sockets' = Append(sockets, "CONNECTING")
         /\ wsErrorMessage' = wsErrorMessage

\* websocket.onclose: every close event schedules one timer.
OnCloseTimers == timers + 1

\* Mutant: the timer callback never reconnects.
ShouldReconnectNever == FALSE
\* The reconnect test of the timer callback, on the closure's values.
ShouldReconnect ==
    ~closureIsConnected /\ closureReconnectAttempts < MAX_RECONNECT_ATTEMPTS

\* The two mount effects: the hook's connectWebSocket() and the dashboard's
\* fetchDevices().
Mount ==
    /\ phase = "init"
    /\ phase' = "mounted"
    /\ ConnectWebSocket
    /\ initialFetch' = "pending"
    /\ UNCHANGED <<timers, isConnected, reconnectAttempts, closures, devices,
                   errorMessage, refreshes, tasks, nFrames, nClicks,
                   observed, lastWriter, carriedBoth>>
    /\ UNCHANGED <<lastFrame, dashVars>>
    /\ UNCHANGED logVars

\* Mutant: onopen leaves the counter and the error message.
WsOpenKeeps(i) ==
    /\ sockets[i] = "CONNECTING"
    /\ sockets' = [sockets EXCEPT ![i] = "OPEN"]
    /\ isConnected' = TRUE
    /\ closures' = 0
    /\ UNCHANGED <<phase, timers, reconnectAttempts, wsErrorMessage>>
    /\ UNCHANGED regVars

\* websocket.onopen
WsOpen(i) ==
    /\ sockets[i] = "CONNECTING"
    /\ sockets' = [sockets EXCEPT ![i] = "OPEN"]
    /\ isConnected' = TRUE
    /\ reconnectAttempts' = 0
    /\ wsErrorMessage' = "null"
    /\ closures' = 0
    /\ UNCHANGED <<phase, timers>>
    /\ UNCHANGED regVars

\* Mutant: a failed connection empties the registry.
WsFailClears(i) ==
    /\ sockets[i] \in {"CONNECTING", "OPEN", "CLOSING"}
    /\ sockets' = [sockets EXCEPT ![i] = "CLOSED"]
    /\ isConnected' = FALSE
    /\ wsErrorMessage' = "WebSocket connection failed"
    /\ timers' = timers + 1
    /\ closures' = closures + 1
    /\ devices' = <<>>
    /\ UNCHANGED <<phase, reconnectAttempts>>
    /\ UNCHANGED <<errorMessage, initialFetch, refreshes, tasks, nFrames,
                   nClicks, observed, lastWriter, carriedBoth, lastFrame>>
    /\ UNCHANGED <<dashVars, logVars>>

\* Mutant: the error handler schedules a reconnect of its own.
WsFailSchedulesTwice(i) ==
    /\ sockets[i] \in {"CONNECTING", "OPEN", "CLOSING"}
    /\ sockets' = [sockets EXCEPT ![i] = "CLOSED"]
    /\ isConnected' = FALSE
    /\ wsErrorMessage' = "WebSocket connection failed"
    /\ timers' = timers + 2
    /\ closures' = closures + 1
    /\ UNCHANGED <<phase, reconnectAttempts>>
    /\ UNCHANGED regVars

\* A failed connection: the browser fires the error event and then the close
\* event in one task (websocket.onerror, then websocket.onclose).
WsFail(i) ==
    /\ sockets[i] \in {"CONNECTING", "OPEN", "CLOSING"}
    /\ sockets' = [sockets EXCEPT ![i] = "CLOSED"]
    /\ isConnected' = FALSE
    /\ wsErrorMessage' = "WebSocket connection failed"
    /\ timers' = OnCloseTimers
    /\ closures' = closures + 1
    /\ UNCHANGED <<phase, reconnectAttempts>>
    /\ UNCHANGED regVars

\* Mutant: onclose leaves the flag.
WsCloseKeepsFlag(i) ==
    /\ sockets[i] \in {"OPEN", "CLOSING"}
    /\ sockets' = [sockets EXCEPT ![i] = "CLOSED"]
    /\ timers' = timers + 1
    /\ closures' = closures + 1
    /\ UNCHANGED <<phase, isConnected, reconnectAttempts, wsErrorMessage>>
    /\ UNCHANGED regVars

\* A clean close, by the relay or completing the client's close():
\* websocket.onclose alone.
WsClose(i) ==
    /\ sockets[i] \in {"OPEN", "CLOSING"}
    /\ sockets' = [sockets EXCEPT ![i] = "CLOSED"]
    /\ isConnected' = FALSE
    /\ timers' = OnCloseTimers
    /\ closures' = closures + 1
    /\ UNCHANGED <<phase, reconnectAttempts, wsErrorMessage>>
    /\ UNCHANGED regVars

\* Mutant: the timer is an interval, it stays pending after it has run.
TimerFireRepeats(limit) ==
    /\ timers > 0
    /\ Len(sockets) < limit
    /\ timers' = timers
    /\ IF ShouldReconnect
       THEN /\ reconnectAttempts' = reconnectAttempts + 1
            /\ ConnectWebSocket
       ELSE UNCHANGED <<reconnectAttempts, sockets, wsErrorMessage>>
    /\ UNCHANGED <<phase, isConnected, closures>>
    /\ UNCHANGED regVars

\* The setTimeout callback of onclose, 5000 ms after the close event.
TimerFire(limit) ==
    /\ timers > 0
    /\ Len(sockets) < limit
    /\ timers' = timers - 1
    /\ IF ShouldReconnect
       THEN /\ reconnectAttempts' = reconnectAttempts + 1
            /\ ConnectWebSocket
       ELSE UNCHANGED <<reconnectAttempts, sockets, wsErrorMessage>>
    /\ UNCHANGED <<phase, isConnected, closures>>
    /\ UNCHANGED regVars

\* Mutant: the cleanup closes the socket whatever its readyState.
UnmountClosesAny ==
    /\ phase = "mounted"
    /\ phase' = "unmounted"
    /\ sockets' = IF wsRef > 0 /\ sockets[wsRef] \in {"CONNECTING", "OPEN"}
                  THEN [sockets EXCEPT ![wsRef] = "CLOSING"]
                  ELSE sockets
    /\ UNCHANGED <<timers, isConnected, reconnectAttempts, wsErrorMessage,
                   closures>>
    /\ UNCHANGED regVars

\* The cleanup of the hook's effect.
Unmount ==
    /\ phase = "mounted"
    /\ phase' = "unmounted"
    /\ sockets' = IF wsRef > 0 /\ sockets[wsRef] = "OPEN"
                  THEN [sockets EXCEPT ![wsRef] = "CLOSING"]
                  ELSE sockets
    /\ UNCHANGED <<timers, isConnected, reconnectAttempts, wsErrorMessage,
                   closures>>
    /\ UNCHANGED regVars

\* ------------------------------------------------------------ registry
DeviceIds(prev) == {prev[i].deviceId : i \in 1..Len(prev)}

\* What the relay can answer to GET /api/mqtt/espDevices.
ServerDevice(id, l, r) ==
    [deviceId |-> id, name |-> "Lamp", lightOn |-> l, rgbMode |-> r,
     commandTopic |-> "t/" \o id]

FetchResults ==
    {<<>>}
    \cup {<<ServerDevice("A", l, r)>> :
            l \in {"true", "false"}, r \in {"true", "false", "undefined"}}
    \cup {<<ServerDevice("A", "false", "undefined"),
             ServerDevice("B", "true", "false")>>}

\* The inbound text frames, after JSON.parse ("invalid": text that does not
\* parse).
FrameNames == {"undefined"}

UpsertFrames ==
    {[type |-> "undefined", deviceId |-> id, lightOn |-> l, rgbmode |-> r,
      commandTopic |-> "t/" \o id, name |-> n] :
        id \in Ids, l \in {"true", "false"}, r \in {"true", "false"},
        n \in FrameNames}

DeleteFrames ==
    {[type |-> "delete", deviceId |-> id, lightOn |-> "undefined",
      rgbmode |-> "undefined", commandTopic |-> "undefined",
      name |-> "undefined"] : id \in Ids}

HeartbeatFrame ==
    [type |-> "heartbeat", deviceId |-> "undefined", lightOn |-> "undefined",
     rgbmode |-> "undefined", commandTopic |-> "undefined", name |-> "undefined"]

InvalidFrame ==
    [type |-> "invalid", deviceId |-> "undefined", lightOn |-> "undefined",
     rgbmode |-> "undefined", commandTopic |-> "undefined", name |-> "undefined"]

\* A state frame that parses but has no deviceId field: the destructured
\* deviceId is undefined.
MissingIdFrame ==
    [type |-> "undefined", deviceId |-> "undefined", lightOn |-> "true",
     rgbmode |-> "false", commandTopic |-> "t/A", name |-> "undefined"]

\* History: no frame delivered yet.
NoFrame ==
    [type |-> "none", deviceId |-> "undefined", lightOn |-> "undefined",
     rgbmode |-> "undefined", commandTopic |-> "undefined", name |-> "undefined"]

Frames ==
    UpsertFrames \cup DeleteFrames
    \cup {HeartbeatFrame, InvalidFrame, MissingIdFrame}

\* Mutant: the filter keeps the record it should drop.
RemoveOthers(prev, id) == SelectSeq(prev, LAMBDA d : d.deviceId = id)
\* prevDevices.filter(device => device.deviceId !== data.deviceId)
Remove(prev, id) == SelectSeq(prev, LAMBDA d : d.deviceId # id)

\* Mutant: the frame's lightOn is not taken.
MergeFrameKeepsLight(device, data) ==
    [device EXCEPT !.rgbMode = data.rgbmode]
\* { ...device, lightOn, rgbMode: rgbmode }
MergeFrame(device, data) ==
    [device EXCEPT !.lightOn = data.lightOn, !.rgbMode = data.rgbmode]

\* Mutant: the name the frame carries is not looked at.
FrameNameDefault(data) == "ESP_" \o data.deviceId
\* data.name || `ESP_${deviceId}`
FrameName(data) ==
    IF data.name \notin {"undefined", "null", ""}
    THEN data.name
    ELSE "ESP_" \o data.deviceId

NewDevice(data) ==
    [deviceId |-> data.deviceId, name |-> FrameName(data),
     lightOn |-> data.lightOn, rgbMode |-> data.rgbmode,
     commandTopic |-> data.commandTopic]

\* Mutant: a new record is put first.
UpsertFront(prev, data) ==
    IF \E i \in 1..Len(prev) : prev[i].deviceId = data.deviceId
    THEN [i \in 1..Len(prev) |->
            IF prev[i].deviceId = data.deviceId
            THEN MergeFrame(prev[i], data)
            ELSE prev[i]]
    ELSE <<NewDevice(data)>> \o prev
\* Mutant: the upsert branch appends without looking for the record.
UpsertAppends(prev, data) == Append(prev, NewDevice(data))
\* The updater of the upsert branch of websocket.onmessage.
Upsert(prev, data) ==
    IF \E i \in 1..Len(prev) : prev[i].deviceId = data.deviceId
    THEN [i \in 1..Len(prev) |->
            IF prev[i].deviceId = data.deviceId
            THEN MergeFrame(prev[i], data)
            ELSE prev[i]]
    ELSE Append(prev, NewDevice(data))

BothOn(d) == Truthy(d.lightOn) /\ Truthy(d.rgbMode)

\* History: what wrote a record last (lightOn, rgbMode: those before the
\* first light toggle of a chain).
Writer(k) == [kind |-> k, lightOn |-> "undefined", rgbMode |-> "undefined"]

Touch(id, w) ==
    IF id \in DOMAIN lastWriter
    THEN [lastWriter EXCEPT ![id] = w]
    ELSE lastWriter

\* Mutant: JSON.parse accepts every text.
ParseThrowsNever(data) == FALSE
\* JSON.parse(event.data) throws on text that is not JSON.
ParseThrows(data) == data.type = "invalid"

\* Mutant: the heartbeat test is missing.
IsHeartbeatNever(data) == FALSE
\* if (data.type === "heartbeat") return;
IsHeartbeat(data) == data.type = "heartbeat"

\* if (data.type === "delete")
IsDelete(data) == data.type = "delete"

\* Mutant: the handler computes from the registry of the first render.
PrevDevicesStale == <<>>
\* setDevices((prevDevices) => ...): React hands the updater the registry as
\* the updates queued before it have left it, in the order of the calls.
PrevDevices == devices

\* websocket.onmessage
HandleFrame(i, data, limit) ==
    /\ sockets[i] = "OPEN"
    /\ nFrames < limit
    /\ nFrames' = nFrames + 1
    /\ CASE ParseThrows(data) ->
              /\ wsErrorMessage' = "Error processing WebSocket message"
              /\ UNCHANGED <<devices, observed, lastWriter, carriedBoth>>
         [] IsHeartbeat(data) ->
              UNCHANGED <<wsErrorMessage, devices, observed, lastWriter,
                          carriedBoth>>
         [] IsDelete(data) ->
              /\ devices' = Remove(PrevDevices, data.deviceId)
              /\ observed' = observed \ {data.deviceId}
              /\ lastWriter' = Touch(data.deviceId, Writer("delete"))
              /\ UNCHANGED <<wsErrorMessage, carriedBoth>>
         [] OTHER ->
              /\ devices' = Upsert(PrevDevices, data)
              /\ observed' = observed \cup {data.deviceId}
              /\ lastWriter' = Touch(data.deviceId, Writer("frame"))
              /\ carriedBoth' =
                    (carriedBoth
                     \/ (Truthy(data.lightOn) /\ Truthy(data.rgbmode)))
              /\ UNCHANGED wsErrorMessage
    /\ UNCHANGED <<phase, sockets, timers, isConnected, reconnectAttempts,
                   closures, errorMessage, initialFetch, refreshes, tasks,
                   nClicks>>
    /\ lastFrame' = data
    /\ UNCHANGED dashVars

OnMessage(i, data, limit) ==
    /\ HandleFrame(i, data, limit)
    /\ UNCHANGED logVars

\* websocket.onmessage, with the frame written to the history.
OnMessageLogged(i, data, limit) ==
    /\ HandleFrame(i, data, limit)
    /\ frameLog' = Append(frameLog, data)
    /\ UNCHANGED foldBase

\* fetchDevices().then(data => setDevices(data)) of the mount effect, and
\* fetchDevices().then(setDevices) of the Refresh button.
SetFetched(data) ==
    /\ devices' = data
    /\ observed' = observed \cup DeviceIds(data)
    /\ lastWriter' = [id \in DOMAIN lastWriter |->
                        IF id \in DeviceIds(data) \cup DeviceIds(devices)
                        THEN Writer("fetch")
                        ELSE lastWriter[id]]
    /\ carriedBoth' = (carriedBoth \/ \E i \in 1..Len(data) : BothOn(data[i]))

FetchResolved(data) ==
    /\ initialFetch = "pending"
    /\ initialFetch' = "done"
    /\ SetFetched(data)
    /\ UNCHANGED chanVars
    /\ UNCHANGED <<errorMessage, refreshes, tasks, nFrames, nClicks>>
    /\ UNCHANGED <<lastFrame, dashVars>>

FetchOk(data) ==
    /\ FetchResolved(data)
    /\ UNCHANGED logVars

\* The same, with the history started anew from the fetched list.
FetchOkLogged(data) ==
    /\ FetchResolved(data)
    /\ frameLog' = <<>>
    /\ foldBase' = data

\* .catch(() => setErrorMessage("Failed to fetch devices"))
FetchFail ==
    /\ initialFetch = "pending"
    /\ initialFetch' = "failed"
    /\ errorMessage' = "Failed to fetch devices"
    /\ UNCHANGED chanVars
    /\ UNCHANGED <<devices, refreshes, tasks, nFrames, nClicks, observed,
                   lastWriter, carriedBoth>>
    /\ UNCHANGED <<lastFrame, dashVars>>
    /\ UNCHANGED logVars

\* The Refresh button, rendered only while the registry is empty.
RefreshClick ==
    /\ phase = "mounted"
    /\ Len(devices) = 0
    /\ refreshes < MaxRefresh
    /\ refreshes' = refreshes + 1
    /\ UNCHANGED chanVars
    /\ UNCHANGED <<devices, errorMessage, initialFetch, tasks, nFrames,
                   nClicks, observed, lastWriter, carriedBoth>>
    /\ UNCHANGED <<lastFrame, dashVars>>
    /\ UNCHANGED logVars

RefreshOk(data) ==
    /\ refreshes > 0
    /\ refreshes' = refreshes - 1
    /\ SetFetched(data)
    /\ UNCHANGED chanVars
    /\ UNCHANGED <<errorMessage, initialFetch, tasks, nFrames, nClicks>>
    /\ UNCHANGED <<lastFrame, dashVars>>
    /\ UNCHANGED logVars

\* The Refresh promise has no catch: a rejection changes no state.
RefreshFail ==
    /\ refreshes > 0
    /\ refreshes' = refreshes - 1
    /\ UNCHANGED chanVars
    /\ UNCHANGED <<devices, errorMessage, initialFetch, tasks, nFrames,
                   nClicks, observed, lastWriter, carriedBoth>>
    /\ unhandledRejection' = TRUE
    /\ UNCHANGED <<lastFrame, deviceToDelete, outbox, nDeletes>>
    /\ UNCHANGED logVars

\* The Dismiss button of the error alert: setErrorMessage(null).
Dismiss ==
    /\ phase = "mounted"
    /\ errorMessage # "null"
    /\ errorMessage' = "null"
    /\ UNCHANGED chanVars
    /\ UNCHANGED <<devices, initialFetch, refreshes, tasks, nFrames, nClicks,
                   observed, lastWriter, carriedBoth, lastFrame>>
    /\ UNCHANGED dashVars
    /\ UNCHANGED logVars

\* ----------------------------------------------------------- deletion
\* JSON.stringify({ type: "delete", deviceId })
DeleteCommand(deviceId) == [type |-> "delete", deviceId |-> deviceId]

\* Mutant: the test of readyState is missing.
RefSet == wsRef > 0
\* wsRef.current?.readyState === WebSocket.OPEN
RefOpen == wsRef > 0 /\ sockets[wsRef] = "OPEN"

\* Mutant: deleteDevice takes the record out of the registry itself.
DeleteDeviceOptimistic(deviceId) ==
    /\ IF RefOpen
       THEN /\ outbox' = Append(outbox, [socket |-> wsRef,
                                         frame |-> DeleteCommand(deviceId)])
            /\ UNCHANGED wsErrorMessage
       ELSE /\ wsErrorMessage' = "WebSocket is not connected"
            /\ UNCHANGED outbox
    /\ devices' = Remove(devices, deviceId)

\* deleteDevice(deviceId) of useWebSocket: it never calls setDevices.
DeleteDevice(deviceId) ==
    /\ IF RefOpen
       THEN /\ outbox' = Append(outbox, [socket |-> wsRef,
                                         frame |-> DeleteCommand(deviceId)])
            /\ UNCHANGED wsErrorMessage
       ELSE /\ wsErrorMessage' = "WebSocket is not connected"
            /\ UNCHANGED outbox
    /\ UNCHANGED devices

\* The "Delete Device" button of card i: handleDeleteClick(device.deviceId).
HandleDeleteClick(i, limit) ==
    /\ phase = "mounted"
    /\ i \in 1..Len(devices)
    /\ nDeletes < limit
    /\ deviceToDelete' = devices[i].deviceId
    /\ UNCHANGED chanVars
    /\ UNCHANGED <<devices, errorMessage, initialFetch, refreshes, tasks,
                   nFrames, nClicks, observed, lastWriter, carriedBoth,
                   lastFrame, outbox, nDeletes, unhandledRejection>>
    /\ UNCHANGED logVars

\* The modal is rendered while deviceToDelete is truthy.
ModalOpen == deviceToDelete \notin {"null", "undefined", ""}

\* Mutant: the modal stays when the command could not be sent.
ConfirmDeleteKeepsOnFailure ==
    /\ phase = "mounted"
    /\ ModalOpen
    /\ DeleteDevice(deviceToDelete)
    /\ nDeletes' = nDeletes + 1
    /\ deviceToDelete' = IF RefOpen THEN "null" ELSE deviceToDelete
    /\ UNCHANGED <<phase, sockets, timers, isConnected, reconnectAttempts,
                   closures>>
    /\ UNCHANGED <<errorMessage, initialFetch, refreshes, tasks, nFrames,
                   nClicks, observed, lastWriter, carriedBoth, lastFrame,
                   unhandledRejection>>
    /\ UNCHANGED logVars

\* The Confirm button of the modal: confirmDelete.
ConfirmDelete ==
    /\ phase = "mounted"
    /\ ModalOpen
    /\ DeleteDevice(deviceToDelete)
    /\ nDeletes' = nDeletes + 1
    /\ deviceToDelete' = "null"
    /\ UNCHANGED <<phase, sockets, timers, isConnected, reconnectAttempts,
                   closures>>
    /\ UNCHANGED <<errorMessage, initialFetch, refreshes, tasks, nFrames,
                   nClicks, observed, lastWriter, carriedBoth, lastFrame,
                   unhandledRejection>>
    /\ UNCHANGED logVars

\* The Cancel button of the modal: cancelDelete.
CancelDelete ==
    /\ phase = "mounted"
    /\ ModalOpen
    /\ deviceToDelete' = "null"
    /\ UNCHANGED chanVars
    /\ UNCHANGED <<devices, errorMessage, initialFetch, refreshes, tasks,
                   nFrames, nClicks, observed, lastWriter, carriedBoth,
                   lastFrame, outbox, nDeletes, unhandledRejection>>
    /\ UNCHANGED logVars

\* ------------------------------------------------------- DeviceControls
Topic(device) == device.commandTopic

\* Mutant: the light toggle leaves rgbMode as it is.
OptimisticLightKeepsRGB(d, device) ==
    [d EXCEPT !.lightOn = Not(device.lightOn)]

\* handleToggleLight, the optimistic updater:
\* { ...d, lightOn: optimisticUpdate, rgbMode: d.lightOn ? d.rgbMode : false }
OptimisticLight(d, device) ==
    [d EXCEPT !.lightOn = Not(device.lightOn),
              !.rgbMode = IF Truthy(d.lightOn) THEN d.rgbMode ELSE "false"]

\* Mutant: the RGB toggle leaves lightOn as it is.
OptimisticRGBKeepsLight(d, device) ==
    [d EXCEPT !.rgbMode = Not(device.rgbMode)]

\* handleToggleRGB, the optimistic updater:
\* { ...d, rgbMode: optimisticRGB, lightOn: d.rgbMode ? d.lightOn : false }
OptimisticRGB(d, device) ==
    [d EXCEPT !.rgbMode = Not(device.rgbMode),
              !.lightOn = IF Truthy(d.rgbMode) THEN d.lightOn ELSE "false"]

\* Mutant: the catch block restores nothing.
RollbackLightKeeps(d, device) == d

\* The catch blocks: { ...d, lightOn: device.lightOn } and
\* { ...d, rgbMode: device.rgbMode }
RollbackLight(d, device) == [d EXCEPT !.lightOn = device.lightOn]
\* Mutant: the catch block puts the whole captured record back.
RollbackRGBWhole(d, device) == device
RollbackRGB(d, device) == [d EXCEPT !.rgbMode = device.rgbMode]

\* prev.map(d => d.deviceId === device.deviceId ? { ... } : d), for the
\* optimistic updates and the rollbacks.
MapOptimisticLight(prev, device) ==
    [i \in 1..Len(prev) |->
        IF prev[i].deviceId = device.deviceId
        THEN OptimisticLight(prev[i], device) ELSE prev[i]]

\* Mutant: the updater does not test the deviceId.
MapOptimisticRGBAll(prev, device) ==
    [i \in 1..Len(prev) |-> OptimisticRGB(prev[i], device)]
MapOptimisticRGB(prev, device) ==
    [i \in 1..Len(prev) |->
        IF prev[i].deviceId = device.deviceId
        THEN OptimisticRGB(prev[i], device) ELSE prev[i]]

\* Mutant: the rollback puts the captured record back when it is gone.
MapRollbackLightRestores(prev, device) ==
    IF \E i \in 1..Len(prev) : prev[i].deviceId = device.deviceId
    THEN [i \in 1..Len(prev) |->
            IF prev[i].deviceId = device.deviceId
            THEN RollbackLight(prev[i], device) ELSE prev[i]]
    ELSE Append(prev, device)
MapRollbackLight(prev, device) ==
    [i \in 1..Len(prev) |->
        IF prev[i].deviceId = device.deviceId
        THEN RollbackLight(prev[i], device) ELSE prev[i]]

MapRollbackRGB(prev, device) ==
    [i \in 1..Len(prev) |->
        IF prev[i].deviceId = device.deviceId
        THEN RollbackRGB(prev[i], device) ELSE prev[i]]

\* const newState = device.lightOn ? "off" : "on"
NewState(device) == IF Truthy(device.lightOn) THEN "off" ELSE "on"
\* const newRGBState = device.rgbMode ? "offRGB" : "onRGB"
NewRGBState(device) == IF Truthy(device.rgbMode) THEN "offRGB" ELSE "onRGB"

\* Mutant: the follow-up of the light toggle forgets to test lightOn.
LightFollowUpAnyPower(device) == Truthy(device.rgbMode)
\* Mutant: the follow-up of the RGB toggle tests for color mode going off.
RGBFollowUpOnDisable(device) ==
    Truthy(device.rgbMode) /\ Truthy(device.lightOn)

\* if (!device.lightOn && device.rgbMode) publish "offRGB"
LightFollowUp(device) == ~Truthy(device.lightOn) /\ Truthy(device.rgbMode)
\* if (!device.rgbMode && device.lightOn) publish "off"
RGBFollowUp(device) == ~Truthy(device.rgbMode) /\ Truthy(device.lightOn)

FollowUp(task) ==
    IF task.kind = "light"
    THEN LightFollowUp(task.device)
    ELSE RGBFollowUp(task.device)

FollowUpMessage(task) == IF task.kind = "light" THEN "offRGB" ELSE "off"

\* publishMQTTMessage(message, topic): the request as the relay is sent it.
Publish(message, topic) == [message |-> message, topic |-> topic]

\* History: the chain of light toggles that alone wrote a record.
LightChain(device) ==
    IF lastWriter[device.deviceId].kind = "light1"
    THEN [lastWriter[device.deviceId] EXCEPT !.kind = "light2"]
    ELSE [kind |-> "light1", lightOn |-> device.lightOn,
          rgbMode |-> device.rgbMode]

\* A click on the light button of card i: the handler up to its first await.
ToggleLight(i, limit) ==
    /\ phase = "mounted"
    /\ i \in 1..Len(devices)
    /\ nClicks < limit
    /\ nClicks' = nClicks + 1
    /\ LET device == devices[i] IN
        /\ devices' = MapOptimisticLight(devices, device)
        /\ tasks' = Append(tasks,
              [kind |-> "light", device |-> device, pc |-> "publish1",
               sent |-> <<Publish(NewState(device), Topic(device))>>,
               acked |-> 0])
        /\ lastWriter' = Touch(device.deviceId, LightChain(device))
    /\ UNCHANGED chanVars
    /\ UNCHANGED <<errorMessage, initialFetch, refreshes, nFrames, observed,
                   carriedBoth>>
    /\ UNCHANGED <<lastFrame, dashVars>>
    /\ UNCHANGED logVars

\* A click on the RGB button of card i: the handler up to its first await,
\* which is the 100 ms delay.
ToggleRGB(i, limit) ==
    /\ phase = "mounted"
    /\ i \in 1..Len(devices)
    /\ nClicks < limit
    /\ nClicks' = nClicks + 1
    /\ LET device == devices[i] IN
        /\ devices' = MapOptimisticRGB(devices, device)
        /\ tasks' = Append(tasks,
              [kind |-> "rgb", device |-> device, pc |-> "delay",
               sent |-> <<>>, acked |-> 0])
        /\ lastWriter' = Touch(device.deviceId, Writer("rgb"))
    /\ UNCHANGED chanVars
    /\ UNCHANGED <<errorMessage, initialFetch, refreshes, nFrames, observed,
                   carriedBoth>>
    /\ UNCHANGED <<lastFrame, dashVars>>
    /\ UNCHANGED logVars

\* handleToggleRGB after the delay: the first publish is issued.
DelayDone(t) ==
    /\ tasks[t].pc = "delay"
    /\ tasks' = [tasks EXCEPT
          ![t].pc = "publish1",
          ![t].sent = <<Publish(NewRGBState(tasks[t].device),
                                Topic(tasks[t].device))>>]
    /\ UNCHANGED chanVars
    /\ UNCHANGED <<devices, errorMessage, initialFetch, refreshes, nFrames,
                   nClicks, observed, lastWriter, carriedBoth>>
    /\ UNCHANGED <<lastFrame, dashVars>>
    /\ UNCHANGED logVars

\* The awaited publish resolves: the handler runs on to its next await or
\* to its end.
PublishOk(t) ==
    /\ tasks[t].pc \in {"publish1", "publish2"}
    /\ tasks' = [tasks EXCEPT
          ![t].acked = @ + 1,
          ![t].pc = IF tasks[t].pc = "publish1" /\ FollowUp(tasks[t])
                    THEN "publish2" ELSE "done",
          ![t].sent = IF tasks[t].pc = "publish1" /\ FollowUp(tasks[t])
                      THEN Append(@, Publish(FollowUpMessage(tasks[t]),
                                             Topic(tasks[t].device)))
                      ELSE @]
    /\ UNCHANGED chanVars
    /\ UNCHANGED <<devices, errorMessage, initialFetch, refreshes, nFrames,
                   nClicks, observed, lastWriter, carriedBoth>>
    /\ UNCHANGED <<lastFrame, dashVars>>
    /\ UNCHANGED logVars

FailureMessage(task) ==
    IF task.kind = "light"
    THEN "Failed to toggle light"
    ELSE "Failed to toggle RGB mode"

\* Mutant: nothing is rolled back once the relay has accepted a publish.
RollbackUnlessAccepted(prev, task) ==
    IF task.acked > 0
    THEN prev
    ELSE IF task.kind = "light"
         THEN MapRollbackLight(prev, task.device)
         ELSE MapRollbackRGB(prev, task.device)
Rollback(prev, task) ==
    IF task.kind = "light"
    THEN MapRollbackLight(prev, task.device)
    ELSE MapRollbackRGB(prev, task.device)

\* The awaited publish rejects: the catch block.
PublishFail(t) ==
    /\ tasks[t].pc \in {"publish1", "publish2"}
    /\ devices' = Rollback(devices, tasks[t])
    /\ errorMessage' = FailureMessage(tasks[t])
    /\ tasks' = [tasks EXCEPT ![t].pc = "failed"]
    /\ lastWriter' = Touch(tasks[t].device.deviceId, Writer("rollback"))
    /\ UNCHANGED chanVars
    /\ UNCHANGED <<initialFetch, refreshes, nFrames, nClicks, observed,
                   carriedBoth>>
    /\ UNCHANGED <<lastFrame, dashVars>>
    /\ UNCHANGED logVars

\* The handler has returned: its invocation is gone.
Return(t) ==
    /\ tasks[t].pc \in {"done", "failed"}
    /\ tasks' = [j \in 1..(Len(tasks) - 1) |->
                    IF j < t THEN tasks[j] ELSE tasks[j + 1]]
    /\ UNCHANGED chanVars
    /\ UNCHANGED <<devices, errorMessage, initialFetch, refreshes, nFrames,
                   nClicks, observed, lastWriter, carriedBoth>>
    /\ UNCHANGED <<lastFrame, dashVars>>
    /\ UNCHANGED logVars

\* ------------------------------------------------------- specification
\* The inbound frames and the fetched lists with one value of lightOn and
\* rgbMode per device, for the specifications that go deep elsewhere.
NarrowFrames ==
    {data \in Frames : data \in UpsertFrames
                          => data.lightOn = "true" /\ data.rgbmode = "false"}

NarrowFetches ==
    {data \in FetchResults :
        \A k \in 1..Len(data) : data[k].rgbMode # "true"
                                 /\ (data[k].deviceId = "A"
                                        => data[k].lightOn = "false")}

Init ==
    /\ phase = "init"
    /\ sockets = <<>>
    /\ timers = 0
    /\ isConnected = FALSE
    /\ reconnectAttempts = 0
    /\ wsErrorMessage = "null"
    /\ closures = 0
    /\ devices = <<>>
    /\ errorMessage = "null"
    /\ initialFetch = "idle"
    /\ refreshes = 0
    /\ tasks = <<>>
    /\ nFrames = 0
    /\ nClicks = 0
    /\ observed = {}
    /\ lastWriter = [id \in RecordIds |-> Writer("none")]
    /\ carriedBoth = FALSE
    /\ lastFrame = NoFrame
    /\ deviceToDelete = "null"
    /\ outbox = <<>>
    /\ nDeletes = 0
    /\ unhandledRejection = FALSE
    /\ frameLog = <<>>
    /\ foldBase = <<>>

Next ==
    \/ Mount
    \/ \E i \in 1..Len(sockets) : WsOpen(i)
    \/ \E i \in 1..Len(sockets) : WsFail(i)
    \/ \E i \in 1..Len(sockets) : WsClose(i)
    \/ TimerFire(MaxSockets)
    \/ Unmount
    \/ \E i \in 1..Len(sockets), data \in NarrowFrames :
            OnMessage(i, data, MaxSpecFrames)
    \/ \E data \in NarrowFetches : FetchOk(data)
    \/ FetchFail
    \/ RefreshClick
    \/ \E data \in NarrowFetches : RefreshOk(data)
    \/ RefreshFail
    \/ \E i \in 1..Len(devices) : ToggleLight(i, MaxSpecTasks)
    \/ \E i \in 1..Len(devices) : ToggleRGB(i, MaxSpecTasks)
    \/ \E t \in 1..Len(tasks) : DelayDone(t)
    \/ \E t \in 1..Len(tasks) : PublishOk(t)
    \/ \E t \in 1..Len(tasks) : PublishFail(t)
    \/ \E t \in 1..Len(tasks) : Return(t)
    \/ Dismiss
    \/ \E i \in 1..Len(devices) : HandleDeleteClick(i, MaxSpecDeletes)
    \/ ConfirmDelete
    \/ CancelDelete

Spec == Init /\ [][Next]_vars

\* The channel alone, with room for more than MAX_RECONNECT_ATTEMPTS
\* reconnects.
NextChannel ==
    \/ Mount
    \/ \E i \in 1..Len(sockets) : WsOpen(i)
    \/ \E i \in 1..Len(sockets) : WsFail(i)
    \/ \E i \in 1..Len(sockets) : WsClose(i)
    \/ TimerFire(MaxChannelSockets)
    \/ Unmount

SpecChannel == Init /\ [][NextChannel]_vars

\* The channel with the browser's guarantee that a timer that is due runs
\* its callback.
SpecChannelFair ==
    Init /\ [][NextChannel]_vars /\ WF_vars(TimerFire(MaxChannelSockets))

\* The registry under frames, the initial fetch and clicks, while the first
\* connection stays up.
NextRegistry ==
    \/ Mount
    \/ \E i \in 1..Len(sockets) : WsOpen(i)
    \/ \E i \in 1..Len(sockets), data \in Frames :
            OnMessage(i, data, MaxFrames)
    \/ \E data \in FetchResults : FetchOk(data)
    \/ FetchFail
    \/ \E i \in 1..Len(devices) : ToggleLight(i, MaxTasks)
    \/ \E i \in 1..Len(devices) : ToggleRGB(i, MaxTasks)
    \/ \E t \in 1..Len(tasks) : DelayDone(t)
    \/ \E t \in 1..Len(tasks) : PublishOk(t)
    \/ \E t \in 1..Len(tasks) : PublishFail(t)
    \/ \E t \in 1..Len(tasks) : Return(t)

SpecRegistry == Init /\ [][NextRegistry]_vars

\* The toggle handlers among themselves, on what the initial fetch brought:
\* deeper in clicks.
NextToggle ==
    \/ Mount
    \/ \E data \in FetchResults : FetchOk(data)
    \/ \E i \in 1..Len(devices) : ToggleLight(i, MaxClicks)
    \/ \E i \in 1..Len(devices) : ToggleRGB(i, MaxClicks)
    \/ \E t \in 1..Len(tasks) : DelayDone(t)
    \/ \E t \in 1..Len(tasks) : PublishOk(t)
    \/ \E t \in 1..Len(tasks) : PublishFail(t)
    \/ \E t \in 1..Len(tasks) : Return(t)

SpecToggle == Init /\ [][NextToggle]_vars

\* State frames that carry a name, and a commandTopic other than the one
\* the relay lists for the device.
NamedFrames ==
    {[type |-> "undefined", deviceId |-> id, lightOn |-> "true",
      rgbmode |-> "false", commandTopic |-> "u/" \o id, name |-> "Desk"] :
        id \in Ids}

StreamFrames == Frames \cup NamedFrames

\* The inbound stream on what the initial fetch brought: deeper in frames.
NextStream ==
    \/ Mount
    \/ \E i \in 1..Len(sockets) : WsOpen(i)
    \/ \E i \in 1..Len(sockets), data \in StreamFrames :
            OnMessageLogged(i, data, MaxStreamFrames)
    \/ \E data \in FetchResults : FetchOkLogged(data)
    \/ FetchFail

SpecStream == Init /\ [][NextStream]_vars

\* Deleting a device, while the channel opens, fails and reconnects.
NextDelete ==
    \/ Mount
    \/ \E i \in 1..Len(sockets) : WsOpen(i)
    \/ \E i \in 1..Len(sockets) : WsFail(i)
    \/ \E i \in 1..Len(sockets) : WsClose(i)
    \/ TimerFire(MaxSockets)
    \/ Unmount
    \/ \E i \in 1..Len(sockets), data \in NarrowFrames :
            OnMessage(i, data, MaxFrames)
    \/ \E data \in NarrowFetches : FetchOk(data)
    \/ \E i \in 1..Len(devices) : HandleDeleteClick(i, MaxDeletes)
    \/ ConfirmDelete
    \/ CancelDelete

SpecDelete == Init /\ [][NextDelete]_vars

\* Fetching: the mount effect and the Refresh button, which a delete frame
\* can bring back.
NextFetch ==
    \/ Mount
    \/ \E i \in 1..Len(sockets) : WsOpen(i)
    \/ \E i \in 1..Len(sockets), data \in Frames :
            OnMessage(i, data, MaxFrames)
    \/ \E data \in FetchResults : FetchOk(data)
    \/ FetchFail
    \/ RefreshClick
    \/ \E data \in FetchResults : RefreshOk(data)
    \/ RefreshFail
    \/ Dismiss

SpecFetch == Init /\ [][NextFetch]_vars

\* The registry's writers while the channel opens, fails and reconnects.
NextLifecycle ==
    \/ Mount
    \/ \E i \in 1..Len(sockets) : WsOpen(i)
    \/ \E i \in 1..Len(sockets) : WsFail(i)
    \/ \E i \in 1..Len(sockets) : WsClose(i)
    \/ TimerFire(MaxSockets)
    \/ \E i \in 1..Len(sockets), data \in NarrowFrames :
            OnMessage(i, data, MaxFrames)
    \/ \E data \in NarrowFetches : FetchOk(data)
    \/ \E i \in 1..Len(devices) : ToggleLight(i, MaxTasks)
    \/ \E t \in 1..Len(tasks) : PublishOk(t)
    \/ \E t \in 1..Len(tasks) : PublishFail(t)
    \/ \E t \in 1..Len(tasks) : Return(t)

SpecLifecycle == Init /\ [][NextLifecycle]_vars

\* ---------------------------------------------------------------- claims
Publishing == {"publish1", "publish2"}

\* The step is the catch block of invocation t.
Fails(t) ==
    /\ Len(tasks') = Len(tasks)
    /\ tasks[t].pc \in Publishing
    /\ tasks'[t].pc = "failed"

\* No handler invocation on device id is still running or has failed.
Settled(id) ==
    \A t \in 1..Len(tasks) :
        tasks[t].device.deviceId = id => tasks[t].pc = "done"

GivenUp == wsErrorMessage = "Maximum reconnection attempts reached"

\* C1 (as claimed): after MAX_RECONNECT_ATTEMPTS consecutive close events
\* with no open event in between, no further socket is created.
C1_ReconnectBound ==
    [][closures >= MAX_RECONNECT_ATTEMPTS => Len(sockets') = Len(sockets)]_vars

\* C2 (as claimed): once the view is unmounted, no socket is created any
\* more.
C2_NoSocketAfterUnmount ==
    [][phase = "unmounted" => Len(sockets') = Len(sockets)]_vars

\* C3: when the publish of a toggle-power that was clicked on a device with
\* lightOn false fails, the catch block leaves the device's lightOn false
\* and raises the one notification "Failed to toggle light".
C3_RollbackRestores ==
    [][\A t \in 1..Len(tasks) :
         (Fails(t) /\ tasks[t].kind = "light"
                   /\ tasks[t].device.lightOn = "false")
         => /\ \A i \in 1..Len(devices') :
                  devices'[i].deviceId = tasks[t].device.deviceId
                  => devices'[i].lightOn = "false"
            /\ errorMessage' = "Failed to toggle light"]_vars

C3_Witness ==
    \E t \in 1..Len(tasks), i \in 1..Len(devices) :
        /\ tasks[t].kind = "light"
        /\ tasks[t].pc = "failed"
        /\ tasks[t].device.lightOn = "false"
        /\ devices[i].deviceId = tasks[t].device.deviceId
        /\ devices[i].lightOn = "false"
        /\ errorMessage = "Failed to toggle light"

\* The record of device id was last written by the second of two light
\* toggles in a row, both of which succeeded.
RoundTripDone(i) ==
    /\ lastWriter[devices[i].deviceId].kind = "light2"
    /\ Settled(devices[i].deviceId)

\* C4 (as claimed): two successful power toggles in a row, with nothing else
\* writing the record in between, restore lightOn and rgbMode.
C4_RoundTrip ==
    \A i \in 1..Len(devices) :
        RoundTripDone(i)
        => /\ devices[i].lightOn = lastWriter[devices[i].deviceId].lightOn
           /\ devices[i].rgbMode = lastWriter[devices[i].deviceId].rgbMode

\* C4 (amended): two successful power toggles in a row restore lightOn and
\* leave rgbMode false, whatever it was.
C4_RoundTripAmended ==
    \A i \in 1..Len(devices) :
        RoundTripDone(i)
        => /\ devices[i].lightOn = lastWriter[devices[i].deviceId].lightOn
           /\ devices[i].rgbMode = "false"

C4_Witness ==
    \E i \in 1..Len(devices) :
        /\ RoundTripDone(i)
        /\ lastWriter[devices[i].deviceId].rgbMode = "true"
        /\ devices[i].rgbMode = "false"

\* C5 (as claimed): the catch block of a toggle leaves alone a record that an
\* upsert frame wrote after the optimistic mutation.
C5_RollbackKeepsServerUpdate ==
    [][\A t \in 1..Len(tasks) :
         (Fails(t) /\ lastWriter[tasks[t].device.deviceId].kind = "frame")
         => devices' = devices]_vars

\* C6 (as claimed): the ids in the registry are those seen by a fetch or an
\* upsert frame and not since removed by a delete frame.
C6_Membership == DeviceIds(devices) = observed

\* C7 (as claimed): unless a fetch or a frame carried lightOn and rgbMode both
\* true, no record has both true.
C7_MutualExclusion ==
    ~carriedBoth => \A i \in 1..Len(devices) : ~BothOn(devices[i])

\* C8: the optimistic mutation of a click leaves the clicked device with not
\* both fields on: light on forces rgbMode false, RGB on forces lightOn
\* false, and switching either off leaves the other field as it was.
C8_OptimisticExclusive ==
    [][nClicks' = nClicks + 1 =>
         LET task == tasks'[Len(tasks')] IN
         \A i \in 1..Len(devices) :
            devices[i].deviceId = task.device.deviceId =>
               LET d == devices[i]
                   e == devices'[i]
               IN  /\ ~BothOn(e)
                   /\ (task.kind = "light" /\ d.lightOn # "true")
                        => (e.lightOn = "true" /\ e.rgbMode = "false")
                   /\ (task.kind = "light" /\ d.lightOn = "true")
                        => (e.lightOn = "false" /\ e.rgbMode = d.rgbMode)
                   /\ (task.kind = "rgb" /\ d.rgbMode # "true")
                        => (e.rgbMode = "true" /\ e.lightOn = "false")
                   /\ (task.kind = "rgb" /\ d.rgbMode = "true")
                        => (e.rgbMode = "false" /\ e.lightOn = d.lightOn)]_vars

C8_Witness ==
    \E t \in 1..Len(tasks), i \in 1..Len(devices) :
        /\ tasks[t].kind = "light"
        /\ tasks[t].pc = "publish1"
        /\ tasks[t].device.lightOn = "false"
        /\ tasks[t].device.rgbMode = "true"
        /\ devices[i].deviceId = tasks[t].device.deviceId
        /\ devices[i].lightOn = "true"
        /\ devices[i].rgbMode = "false"

\* C9: a toggle-power publishes "on" (power was off) or "off" (power was on)
\* to the device's commandTopic first, and "offRGB" second exactly when power
\* was off and color mode on, and not before the first publish succeeded.
C9_LightSequence ==
    \A t \in 1..Len(tasks) :
        tasks[t].kind = "light" =>
            LET task == tasks[t]
                wants == task.device.lightOn # "true"
                         /\ task.device.rgbMode = "true"
            IN  /\ Len(task.sent) \in {1, 2}
                /\ task.sent[1] =
                     [message |-> IF task.device.lightOn = "true"
                                  THEN "off" ELSE "on",
                      topic |-> task.device.commandTopic]
                /\ Len(task.sent) <= task.acked + 1
                /\ Len(task.sent) = 2 =>
                     /\ wants
                     /\ task.sent[2] = [message |-> "offRGB",
                                        topic |-> task.device.commandTopic]
                /\ (wants /\ task.acked >= 1) => Len(task.sent) = 2
                /\ task.pc = "done" => task.acked = Len(task.sent)

C9_Witness ==
    \E t \in 1..Len(tasks) :
        /\ tasks[t].kind = "light"
        /\ tasks[t].pc = "done"
        /\ Len(tasks[t].sent) = 2
        /\ tasks[t].sent[2].message = "offRGB"

\* What every toggle-color-mode does first: once past its delay, "onRGB"
\* (color mode was off) or "offRGB" (color mode was on).
RGBFirst(task) ==
    /\ task.pc = "delay" => Len(task.sent) = 0
    /\ task.pc # "delay" =>
         /\ Len(task.sent) \in {1, 2}
         /\ task.sent[1] =
              [message |-> IF task.device.rgbMode = "true"
                           THEN "offRGB" ELSE "onRGB",
               topic |-> task.device.commandTopic]
         /\ Len(task.sent) <= task.acked + 1
         /\ Len(task.sent) = 2 =>
              task.sent[2] = [message |-> "off",
                              topic |-> task.device.commandTopic]
         /\ task.pc = "done" => task.acked = Len(task.sent)

\* C10 (as claimed): "off" is published second exactly when color mode is
\* being disabled while power was on.
C10_RGBSequence ==
    \A t \in 1..Len(tasks) :
        tasks[t].kind = "rgb" =>
            LET task == tasks[t]
                wants == task.device.rgbMode = "true"
                         /\ task.device.lightOn = "true"
            IN  /\ RGBFirst(task)
                /\ Len(task.sent) = 2 => wants
                /\ (wants /\ task.acked >= 1) => Len(task.sent) = 2

\* C10 (amended): "off" is published second exactly when color mode is being
\* enabled while power was on.
C10_RGBSequenceAmended ==
    \A t \in 1..Len(tasks) :
        tasks[t].kind = "rgb" =>
            LET task == tasks[t]
                wants == task.device.rgbMode # "true"
                         /\ task.device.lightOn = "true"
            IN  /\ RGBFirst(task)
                /\ Len(task.sent) = 2 => wants
                /\ (wants /\ task.acked >= 1) => Len(task.sent) = 2

C10_Witness ==
    \E t \in 1..Len(tasks) :
        /\ tasks[t].kind = "rgb"
        /\ tasks[t].pc = "done"
        /\ tasks[t].device.rgbMode = "false"
        /\ tasks[t].device.lightOn = "true"
        /\ Len(tasks[t].sent) = 2
        /\ tasks[t].sent[2].message = "off"

\* One inbound frame has been handled in this step: lastFrame' is the frame.
FrameStep == nFrames' = nFrames + 1

\* C11: a heartbeat frame leaves the registry as it is, record for record
\* and in the same order, and changes neither the reconnect counter nor the
\* connection state nor either error message.
C11_HeartbeatNoOp ==
    [][(FrameStep /\ lastFrame'.type = "heartbeat")
        => /\ devices' = devices
           /\ reconnectAttempts' = reconnectAttempts
           /\ isConnected' = isConnected
           /\ sockets' = sockets
           /\ wsErrorMessage' = wsErrorMessage
           /\ errorMessage' = errorMessage]_vars

\* A heartbeat was the last frame of two, on a registry of two records.
C11_Witness ==
    /\ lastFrame.type = "heartbeat"
    /\ nFrames = 2
    /\ Len(devices) = 2

\* The place of the record of id in prev (0: none).
IndexOf(prev, id) ==
    IF \E k \in 1..Len(prev) : prev[k].deviceId = id
    THEN CHOOSE k \in 1..Len(prev) : prev[k].deviceId = id
    ELSE 0

\* next is prev with the record at place k taken out.
TakenOut(prev, next, k) ==
    /\ Len(next) = Len(prev) - 1
    /\ \A j \in 1..Len(next) : next[j] = prev[IF j < k THEN j ELSE j + 1]

\* C12: a delete frame takes the record of frame.deviceId out of the
\* registry and leaves the other records and their order; with no such
\* record the registry stays as it is; neither case sets an error message.
C12_DeleteFrame ==
    [][(FrameStep /\ lastFrame'.type = "delete")
        => /\ IF IndexOf(devices, lastFrame'.deviceId) = 0
              THEN devices' = devices
              ELSE TakenOut(devices, devices',
                            IndexOf(devices, lastFrame'.deviceId))
           /\ wsErrorMessage' = wsErrorMessage
           /\ errorMessage' = errorMessage]_vars

\* The fetch brought A and B, the one frame was a delete frame for A, and B
\* alone is left.
C12_Witness ==
    /\ lastFrame.type = "delete"
    /\ lastFrame.deviceId = "A"
    /\ nFrames = 1
    /\ devices = <<ServerDevice("B", "true", "false")>>

\* The registry holds a record of the frame's deviceId with the frame's
\* lightOn and rgbmode.
Applied(prev, data) ==
    \E k \in 1..Len(prev) :
        /\ prev[k].deviceId = data.deviceId
        /\ prev[k].lightOn = data.lightOn
        /\ prev[k].rgbMode = data.rgbmode

\* C13: a frame whose text is not JSON leaves the registry, the sockets,
\* isConnected, the reconnect counter and the timers as they are and sets
\* the hook's errorMessage to "Error processing WebSocket message"; the
\* socket stays open, and a state frame that comes next is applied.
C13_ParseFailure ==
    [][/\ (FrameStep /\ lastFrame'.type = "invalid")
            => /\ devices' = devices
               /\ sockets' = sockets
               /\ \E i \in 1..Len(sockets') : sockets'[i] = "OPEN"
               /\ isConnected' = isConnected
               /\ reconnectAttempts' = reconnectAttempts
               /\ timers' = timers
               /\ wsErrorMessage' = "Error processing WebSocket message"
       /\ (FrameStep /\ lastFrame.type = "invalid"
                     /\ lastFrame' \in UpsertFrames)
            => Applied(devices', lastFrame')]_vars

\* After a frame that did not parse, a state frame for B has created B's
\* record.
C13_Witness ==
    /\ nFrames = 2
    /\ wsErrorMessage = "Error processing WebSocket message"
    /\ lastFrame \in UpsertFrames
    /\ lastFrame.deviceId = "B"
    /\ \E k \in 1..Len(devices) : devices[k] = NewDevice(lastFrame)

\* C14: a state frame without a deviceId field leaves the registry as it is
\* and sets an error message.
C14_MissingId ==
    [][(FrameStep /\ lastFrame' = MissingIdFrame)
        => /\ devices' = devices
           /\ wsErrorMessage' = "Error processing WebSocket message"]_vars

\* C15: no two records of the registry have the same deviceId (no list of
\* FetchResults holds an id twice).
C15_UniqueIds ==
    \A i, j \in 1..Len(devices) :
        devices[i].deviceId = devices[j].deviceId => i = j

\* Two records, after the fetch, a state frame for one of them and a toggle
\* that was rolled back.
C15_Witness ==
    /\ Len(devices) = 2
    /\ initialFetch = "done"
    /\ lastFrame \in UpsertFrames
    /\ lastFrame.deviceId \in DeviceIds(devices)
    /\ \E t \in 1..Len(tasks) : tasks[t].pc = "failed"

\* deleteDevice has been called in this step, for deviceToDelete.
DeleteStep == nDeletes' = nDeletes + 1

\* The channel is Open: a socket of the client is.
ChannelOpen == \E i \in 1..Len(sockets) : sockets[i] = "OPEN"

\* The frame of the delete command for id, on the open socket.
Sent(id) ==
    [socket |-> CHOOSE i \in 1..Len(sockets) : sockets[i] = "OPEN",
     frame |-> [type |-> "delete", deviceId |-> id]]

\* C16: a call of deleteDevice on an Open channel writes the one frame
\* {type: "delete", deviceId} to it; on a channel that is not Open it
\* writes nothing and sets the hook's errorMessage to "WebSocket is not
\* connected"; no other step writes a frame, so nothing is sent later.
C16_SendDeleteCommand ==
    [][/\ (DeleteStep /\ ChannelOpen)
            => /\ outbox' = Append(outbox, Sent(deviceToDelete))
               /\ wsErrorMessage' = wsErrorMessage
       /\ (DeleteStep /\ ~ChannelOpen)
            => /\ outbox' = outbox
               /\ wsErrorMessage' = "WebSocket is not connected"
       /\ ~DeleteStep => outbox' = outbox]_vars

\* A delete refused while the first socket was down, the channel open again
\* on the second socket, and a later delete sent there: the one frame.
C16_Witness ==
    /\ nDeletes = 2
    /\ Len(sockets) = 2
    /\ sockets[2] = "OPEN"
    /\ outbox = <<[socket |-> 2,
                   frame |-> [type |-> "delete", deviceId |-> "A"]]>>

\* The user has confirmed the deletion of id and the command went out.
Requested(id) == \E k \in 1..Len(outbox) : outbox[k].frame.deviceId = id

C18_FetchFailureSurfaced ==
    [][/\ (initialFetch = "pending" /\ initialFetch' = "failed")
            => /\ devices' = devices
               /\ errorMessage' = "Failed to fetch devices"
       /\ (refreshes' < refreshes /\ devices' = devices)
            => ~unhandledRejection']_vars

\* A socket goes from CONNECTING to OPEN in this step.
OpenStep ==
    \E i \in 1..Len(sockets) :
        sockets[i] = "CONNECTING" /\ sockets'[i] = "OPEN"

C20_ErrorsReachUser ==
    [][/\ (wsErrorMessage' # wsErrorMessage /\ wsErrorMessage' # "null")
            => errorMessage' = wsErrorMessage'
       /\ (initialFetch = "pending" /\ initialFetch' = "failed")
            => errorMessage' = "Failed to fetch devices"
       /\ \A t \in 1..Len(tasks) :
            Fails(t) => errorMessage' = FailureMessage(tasks[t])]_vars

\* A frame that reports the state of a device: JSON with a deviceId, neither
\* heartbeat nor delete.
StateFrame(data) == data.type = "undefined" /\ data.deviceId \in Ids

\* A field the frame carries.
Supplied(v) == v \notin {"undefined", "null", ""}

\* C21: a state frame for a deviceId the registry holds merges every field
\* it carries into the record: lightOn, rgbmode, and commandTopic and name
\* when it supplies them.
C21_MergeAllFields ==
    [][(FrameStep /\ StateFrame(lastFrame')
                  /\ IndexOf(devices, lastFrame'.deviceId) # 0)
        => LET data == lastFrame'
               k == IndexOf(devices, data.deviceId)
           IN /\ Len(devices') = Len(devices)
              /\ devices'[k].lightOn = data.lightOn
              /\ devices'[k].rgbMode = data.rgbmode
              /\ Supplied(data.commandTopic)
                    => devices'[k].commandTopic = data.commandTopic
              /\ Supplied(data.name) => devices'[k].name = data.name]_vars

\* C22: a state frame for a deviceId the registry does not hold adds exactly
\* one record, at the end: that id, the frame's lightOn, rgbmode and
\* commandTopic, and the frame's name if it supplies one, "ESP_" and the id
\* otherwise.
C22_CreateRecord ==
    [][(FrameStep /\ StateFrame(lastFrame')
                  /\ IndexOf(devices, lastFrame'.deviceId) = 0)
        => LET data == lastFrame' IN
           devices' = Append(devices,
              [deviceId |-> data.deviceId,
               name |-> IF Supplied(data.name) THEN data.name
                        ELSE "ESP_" \o data.deviceId,
               lightOn |-> data.lightOn,
               rgbMode |-> data.rgbmode,
               commandTopic |-> data.commandTopic])]_vars

\* Two frames have created two records: A's with the name its frame
\* carried, B's with the default name.
C22_Witness ==
    /\ nFrames = 2
    /\ Len(devices) = 2
    /\ devices[1].deviceId = "A"
    /\ devices[1].name = "Desk"
    /\ devices[1].commandTopic = "u/A"
    /\ devices[2].deviceId = "B"
    /\ devices[2].name = "ESP_B"

\* The deviceIds of the registry, in its order.
IdsOf(prev) == [k \in 1..Len(prev) |-> prev[k].deviceId]

\* The response of the initial fetch replaces the registry in this step.
FetchStep == initialFetch = "pending" /\ initialFetch' = "done"

\* A toggle button has been clicked in this step.
ClickStep == nClicks' = nClicks + 1

\* C23: but for the fetch, which replaces the registry, every step keeps the
\* order of the records: a state frame leaves the ids as they are or adds
\* the new one at the end, a delete frame takes one id out and keeps the
\* rest in order, a click and a rollback leave the ids as they are.
C23_Order ==
    [][~FetchStep
        => LET a == IdsOf(devices)
               b == IdsOf(devices')
           IN /\ \/ b = a
                 \/ \E id \in RecordIds : b = Append(a, id)
                 \/ \E k \in 1..Len(a) : TakenOut(a, b, k)
              /\ (FrameStep /\ lastFrame'.type = "undefined")
                    => \/ b = a
                       \/ /\ lastFrame'.deviceId \notin DeviceIds(devices)
                          /\ b = Append(a, lastFrame'.deviceId)
              /\ (FrameStep /\ lastFrame'.type = "delete")
                    => \/ b = a
                       \/ TakenOut(a, b,
                                   IndexOf(devices, lastFrame'.deviceId))
              /\ (ClickStep \/ \E t \in 1..Len(tasks) : Fails(t))
                    => b = a]_vars

\* A was fetched, a frame has created B after it, and a toggle of A was
\* rolled back: A is still first.
C23_Witness ==
    /\ Len(devices) = 2
    /\ devices[1].deviceId = "A"
    /\ devices[1].name = "Lamp"
    /\ devices[2].name = "ESP_B"
    /\ \E t \in 1..Len(tasks) :
            tasks[t].pc = "failed" /\ tasks[t].device.deviceId = "A"

\* C24: a frame of the upsert branch handled twice in a row leaves the
\* registry, the second time, as the first time left it.
C24_Idempotent ==
    [][(/\ FrameStep
        /\ lastFrame'.type = "undefined"
        /\ Len(frameLog) > 0
        /\ frameLog[Len(frameLog)] = lastFrame')
        => devices' = devices]_vars

\* The same state frame twice, on a registry of two fetched records.
C24_Witness ==
    /\ Len(frameLog) = 2
    /\ frameLog[1] = frameLog[2]
    /\ StateFrame(frameLog[1])
    /\ Len(foldBase) = 2

\* The effect of one frame on the registry.
FrameEffect(prev, data) ==
    CASE ParseThrows(data) -> prev
      [] IsHeartbeat(data) -> prev
      [] IsDelete(data) -> Remove(prev, data.deviceId)
      [] OTHER -> Upsert(prev, data)

RECURSIVE Fold(_, _)
Fold(prev, log) ==
    IF log = <<>>
    THEN prev
    ELSE Fold(FrameEffect(prev, Head(log)), Tail(log))

\* C25: the registry is the left fold of the effects of the frames handled
\* since the fetch set it, in the order they arrived.
C25_LeftFold == devices = Fold(foldBase, frameLog)

\* Two state frames for the same device that differ: in the other order the
\* fold gives another registry.
C25_Witness ==
    /\ Len(frameLog) = 2
    /\ StateFrame(frameLog[1])
    /\ StateFrame(frameLog[2])
    /\ frameLog[1].deviceId = frameLog[2].deviceId
    /\ Len(foldBase) = 2
    /\ Fold(foldBase, <<frameLog[2], frameLog[1]>>) # devices

\* An event of the channel's lifecycle is handled in this step: open, error
\* and close, or the reconnect timer.
LifecycleStep == sockets' # sockets \/ timers' # timers

\* C26: no lifecycle event of the channel changes the registry; the steps
\* that change it are the fetch response, a frame, a click on a toggle and
\* the rollback of a failed publish.
C26_LifecycleKeepsRegistry ==
    [][/\ LifecycleStep => devices' = devices
       /\ devices' # devices
            => \/ FetchStep
               \/ FrameStep
               \/ ClickStep
               \/ \E t \in 1..Len(tasks) : Fails(t)]_vars

\* Two records, still there after the first connection has gone and the
\* second has opened.
C26_Witness ==
    /\ Len(devices) = 2
    /\ Len(sockets) = 2
    /\ sockets[1] = "CLOSED"
    /\ sockets[2] = "OPEN"

\* The channel has closed and its reconnect timer is pending, with the view
\* mounted, the counter below the maximum and n sockets created so far.
ClosedBelowMax(n) ==
    /\ timers > 0
    /\ phase = "mounted"
    /\ reconnectAttempts < MAX_RECONNECT_ATTEMPTS
    /\ Len(sockets) = n

\* C27: after a closure with the view mounted and the counter below 5 a new
\* socket is eventually created, and the step that creates it is the timer
\* callback, which raises the counter by exactly one.
C27_ReconnectLiveness ==
    /\ [][(Len(sockets') > Len(sockets) /\ phase # "init")
            => /\ reconnectAttempts' = reconnectAttempts + 1
               /\ timers' = timers - 1]_vars
    /\ \A n \in 1..(MaxChannelSockets - 1) :
            ClosedBelowMax(n) ~> (Len(sockets) > n)

\* The third socket, created by the second reconnect in a row: the counter
\* is at 2.
C27_Witness ==
    /\ Len(sockets) = 3
    /\ sockets[3] = "CONNECTING"
    /\ reconnectAttempts = 2
    /\ phase = "mounted"

\* C28: the reconnect counter, which the dashboard shows as "Attempt n/5",
\* is within 0..5 in every reachable state.
C28_CounterInRange == reconnectAttempts \in 0..MAX_RECONNECT_ATTEMPTS

\* A toggle of the device id has not yet heard of its publish.
InFlight(id) ==
    \E t \in 1..Len(tasks) :
        /\ tasks[t].device.deviceId = id
        /\ tasks[t].pc \in Publishing \cup {"delay"}

\* The publish of toggle t is acknowledged in this step.
Acked(t) ==
    /\ Len(tasks') = Len(tasks)
    /\ tasks[t].pc \in Publishing
    /\ tasks'[t].acked = tasks[t].acked + 1

\* C29: a state frame for a device is applied also while a toggle of that
\* device is in flight, and the acknowledgement of a publish writes nothing
\* to the registry: the optimistic value a frame has overwritten stays
\* overwritten when the toggle succeeds.
C29_AcceptedRace ==
    [][/\ (FrameStep /\ StateFrame(lastFrame')
                     /\ InFlight(lastFrame'.deviceId))
            => Applied(devices', lastFrame')
       /\ \A t \in 1..Len(tasks) : Acked(t) => devices' = devices]_vars

\* The light toggle of A, clicked at lightOn false, has succeeded, and A's
\* record has the lightOn false of a frame, not the optimistic true.
C29_Witness ==
    \E t \in 1..Len(tasks), k \in 1..Len(devices) :
        /\ tasks[t].kind = "light"
        /\ tasks[t].pc = "done"
        /\ tasks[t].device.deviceId = "A"
        /\ tasks[t].device.lightOn = "false"
        /\ devices[k].deviceId = "A"
        /\ devices[k].lightOn = "false"
        /\ lastWriter["A"].kind = "frame"
        /\ StateFrame(lastFrame)
        /\ lastFrame.deviceId = "A"
        /\ lastFrame.lightOn = "false"

\* The record d with only the field that toggle task had toggled put back to
\* the value the handler captured at the click.
ToggledFieldBack(d, task) ==
    IF task.kind = "light"
    THEN [d EXCEPT !.lightOn = task.device.lightOn]
    ELSE [d EXCEPT !.rgbMode = task.device.rgbMode]

\* Nothing but one click has written the registry since the fetch.
OneClickOnly == nFrames = 0 /\ nClicks = 1

\* C30: the catch block of a toggle puts back the toggled field of the
\* device's record and nothing else: a failed toggle-power restores lightOn
\* and keeps rgbMode, a failed toggle-color-mode restores rgbMode and keeps
\* lightOn, every other record stays. With the click the only writer, the
\* kept field is the optimistic one: false when power (resp. color mode) was
\* being turned on.
C30_RollbackOneField ==
    [][\A t \in 1..Len(tasks) :
         Fails(t) =>
            /\ Len(devices') = Len(devices)
            /\ \A i \in 1..Len(devices) :
                  /\ devices'[i] =
                        IF devices[i].deviceId = tasks[t].device.deviceId
                        THEN ToggledFieldBack(devices[i], tasks[t])
                        ELSE devices[i]
                  /\ (/\ OneClickOnly
                      /\ devices[i].deviceId = tasks[t].device.deviceId)
                     => /\ (tasks[t].kind = "light"
                              /\ tasks[t].device.lightOn # "true")
                           => devices'[i].rgbMode = "false"
                        /\ (tasks[t].kind = "rgb"
                              /\ tasks[t].device.rgbMode # "true")
                           => devices'[i].lightOn = "false"]_vars

\* A toggle-power clicked at lightOn false, rgbMode true has failed with no
\* other writer in between: the record has lightOn false again and rgbMode
\* false, which is not the record of before the click.
C30_Witness ==
    \E t \in 1..Len(tasks), i \in 1..Len(devices) :
        /\ OneClickOnly
        /\ tasks[t].kind = "light"
        /\ tasks[t].pc = "failed"
        /\ tasks[t].device.lightOn = "false"
        /\ tasks[t].device.rgbMode = "true"
        /\ devices[i].deviceId = tasks[t].device.deviceId
        /\ devices[i].lightOn = "false"
        /\ devices[i].rgbMode = "false"
        /\ devices[i] # tasks[t].device
        /\ lastWriter[devices[i].deviceId].kind = "rollback"

\* The step is the catch block of invocation t, entered from the follow-up
\* publish: the relay has accepted the first command.
FollowUpFails(t) ==
    /\ Fails(t)
    /\ tasks[t].pc = "publish2"

\* C31: when the follow-up publish of a toggle fails after the first publish
\* succeeded, the toggled field of the device's record is put back to the
\* value of before the toggle and the failure notification of that toggle is
\* raised; the first command stays accepted.
C31_FollowUpFailureRollsBack ==
    [][\A t \in 1..Len(tasks) :
         FollowUpFails(t) =>
            /\ tasks[t].acked = 1
            /\ tasks'[t].acked = 1
            /\ Len(tasks[t].sent) = 2
            /\ \A i \in 1..Len(devices') :
                  devices'[i].deviceId = tasks[t].device.deviceId =>
                     IF tasks[t].kind = "light"
                     THEN devices'[i].lightOn = tasks[t].device.lightOn
                     ELSE devices'[i].rgbMode = tasks[t].device.rgbMode
            /\ errorMessage' = IF tasks[t].kind = "light"
                               THEN "Failed to toggle light"
                               ELSE "Failed to toggle RGB mode"]_vars

\* The "offRGB" after an accepted "on" has failed: the record has lightOn
\* false again and the notification is up.
C31_Witness ==
    \E t \in 1..Len(tasks), i \in 1..Len(devices) :
        /\ tasks[t].kind = "light"
        /\ tasks[t].pc = "failed"
        /\ tasks[t].acked = 1
        /\ Len(tasks[t].sent) = 2
        /\ tasks[t].sent[1].message = "on"
        /\ tasks[t].sent[2].message = "offRGB"
        /\ devices[i].deviceId = tasks[t].device.deviceId
        /\ devices[i].lightOn = "false"
        /\ errorMessage = "Failed to toggle light"

\* The registry holds a record of device id.
Holds(prev, id) == \E k \in 1..Len(prev) : prev[k].deviceId = id

\* C32: a rollback creates no record: the registry has the same ids in the
\* same places after the catch block as before it, so a device a delete
\* frame has removed since the click is still absent after the rollback.
C32_RollbackCreatesNothing ==
    [][\A t \in 1..Len(tasks) :
         Fails(t) =>
            /\ IdsOf(devices') = IdsOf(devices)
            /\ ~Holds(devices, tasks[t].device.deviceId)
                  => ~Holds(devices', tasks[t].device.deviceId)]_vars

\* A's toggle has failed after the delete frame for A, the only frame so
\* far, took the record the click was made on: A is not in the registry.
C32_Witness ==
    \E t \in 1..Len(tasks) :
        /\ tasks[t].pc = "failed"
        /\ tasks[t].device.deviceId = "A"
        /\ nFrames = 1
        /\ lastFrame.type = "delete"
        /\ lastFrame.deviceId = "A"
        /\ lastWriter["A"].kind = "rollback"
        /\ ~Holds(devices, "A")
        /\ initialFetch = "done"

\* The records of the devices other than id, in their order.
Others(prev, id) == SelectSeq(prev, LAMBDA d : d.deviceId # id)

\* The registry is the same before and after the step but for the records of
\* device id.
OthersKept(id) == Others(devices', id) = Others(devices, id)

\* C33: an optimistic toggle, a rollback, a state frame and a delete frame
\* each leave every record of a device other than the one they are about as
\* it is, field for field and in its place among the others.
C33_OthersUnchanged ==
    [][/\ ClickStep => OthersKept(tasks'[Len(tasks')].device.deviceId)
       /\ \A t \in 1..Len(tasks) :
             Fails(t) => OthersKept(tasks[t].device.deviceId)
       /\ (FrameStep /\ lastFrame'.type \in {"undefined", "delete"})
             => OthersKept(lastFrame'.deviceId)]_vars

\* A's record has been toggled, written by a state frame and rolled back,
\* next to B's record, which is as the relay listed it.
C33_Witness ==
    \E t \in 1..Len(tasks) :
        /\ tasks[t].pc = "failed"
        /\ tasks[t].device.deviceId = "A"
        /\ nFrames = 1
        /\ lastFrame.type = "undefined"
        /\ lastFrame.deviceId = "A"
        /\ lastWriter["A"].kind = "rollback"
        /\ Len(devices) = 2
        /\ devices[1].deviceId = "A"
        /\ devices[2] = [deviceId |-> "B", name |-> "Lamp", lightOn |-> "true",
                         rgbMode |-> "false", commandTopic |-> "t/B"]

\* Socket i fires its close event in this step.
Closes(i) == sockets[i] # "CLOSED" /\ sockets'[i] = "CLOSED"

\* The sockets that have fired their close event.
ClosedSockets == {i \in 1..Len(sockets) : sockets[i] = "CLOSED"}

\* C34: a socket that fails (error event, then close event) schedules one
\* reconnect timer and leaves the counter; the timer, when it runs, adds one
\* to the counter and creates one socket. Every closed socket is so answered
\* by one timer, pending or run.
C34_FailureCountsOnce ==
    /\ [][\A i \in 1..Len(sockets) :
            Closes(i) => /\ timers' = timers + 1
                         /\ reconnectAttempts' = reconnectAttempts
                         /\ Len(sockets') = Len(sockets)]_vars
    /\ [][timers' < timers
            => /\ timers' = timers - 1
               /\ reconnectAttempts' = reconnectAttempts + 1
               /\ Len(sockets') = Len(sockets) + 1]_vars
    /\ [](phase # "init"
            => Cardinality(ClosedSockets) = timers + Len(sockets) - 1)

\* The first socket has failed and its one timer has run: the counter is 1
\* and the second socket is connecting.
C34_Witness ==
    /\ Len(sockets) = 2
    /\ sockets[1] = "CLOSED"
    /\ sockets[2] = "CONNECTING"
    /\ wsErrorMessage = "WebSocket connection failed"
    /\ timers = 0
    /\ reconnectAttempts = 1

\* The sockets that are connecting or open.
LiveSockets == {i \in 1..Len(sockets) : sockets[i] \in {"CONNECTING", "OPEN"}}

\* C35: while the view is mounted at most one socket is connecting or open,
\* at most one reconnect timer is pending, and none is pending while a
\* socket is connecting or open.
C35_SingleChannel ==
    phase = "mounted" =>
        /\ Cardinality(LiveSockets) <= 1
        /\ timers <= 1
        /\ timers > 0 => LiveSockets = {}

\* The second reconnect period of a mount: two sockets closed, one timer
\* pending, none connecting or open.
C35_Witness ==
    /\ phase = "mounted"
    /\ Len(sockets) = 2
    /\ LiveSockets = {}
    /\ timers = 1

\* The socket created last has fired its open event and neither an error
\* nor a close event since.
LastSocketUp ==
    /\ Len(sockets) > 0
    /\ sockets[Len(sockets)] \in {"OPEN", "CLOSING"}

\* C36: isConnected is true only if the socket created last has opened and
\* has not failed or closed since: it is false before the first socket
\* opens, while a socket is connecting and while the last socket is closed.
C36_FlagFollowsSocket ==
    /\ isConnected => LastSocketUp
    /\ phase = "init" => ~isConnected
    /\ (Len(sockets) > 0 /\ sockets[Len(sockets)] \in {"CONNECTING", "CLOSED"})
         => ~isConnected

\* The flag is up on the second socket, after the first has closed.
C36_Witness ==
    /\ isConnected
    /\ Len(sockets) = 2
    /\ sockets[1] = "CLOSED"
    /\ sockets[2] = "OPEN"

\* A deletion is pending: the dashboard holds the id the user has picked.
Pending == deviceToDelete \notin {"null", "undefined", ""}

\* C37: a frame leaves the client only in a step that confirms a pending
\* deletion, and it is the delete frame for the pending deviceId; a step
\* that clears the pending deletion without confirming it (Cancel) sends
\* nothing; a confirm clears the pending deletion whether the channel was
\* open or not.
C37_DeleteProtocol ==
    [][/\ outbox' # outbox
            => /\ DeleteStep
               /\ Pending
               /\ Len(outbox') = Len(outbox) + 1
               /\ SubSeq(outbox', 1, Len(outbox)) = outbox
               /\ outbox'[Len(outbox')].frame =
                     [type |-> "delete", deviceId |-> deviceToDelete]
       /\ DeleteStep => (Pending /\ deviceToDelete' = "null")
       /\ (DeleteStep /\ ~ChannelOpen) => outbox' = outbox
       /\ (~DeleteStep /\ Pending /\ deviceToDelete' = "null")
            => outbox' = outbox]_vars

\* One deletion confirmed and sent on the first socket, a second one
\* confirmed after that socket had gone: nothing more was sent and no
\* deletion is pending.
C37_Witness ==
    /\ nDeletes = 2
    /\ Len(outbox) = 1
    /\ outbox[1].socket = 1
    /\ sockets[1] = "CLOSED"
    /\ wsErrorMessage = "WebSocket is not connected"
    /\ deviceToDelete = "null"

\* The cleanup of the effect runs in this step.
TeardownStep == phase = "mounted" /\ phase' = "unmounted"

\* C38: the teardown calls close() on the socket created last when it is
\* open and touches no other socket, a connecting one included; a state
\* frame handled after the teardown is applied to the registry like any
\* other.
C38_TeardownClosesOpenOnly ==
    [][/\ TeardownStep
            => /\ Len(sockets') = Len(sockets)
               /\ \A i \in 1..Len(sockets) :
                     sockets'[i] =
                        IF i = Len(sockets) /\ sockets[i] = "OPEN"
                        THEN "CLOSING" ELSE sockets[i]
       /\ (phase = "unmounted" /\ FrameStep /\ StateFrame(lastFrame'))
            => Applied(devices', lastFrame')]_vars

\* The only socket was connecting at the teardown (an open one would be
\* closing), has opened since, and a state frame it delivered has written
\* A's record.
C38_Witness ==
    /\ phase = "unmounted"
    /\ Len(sockets) = 1
    /\ sockets[1] = "OPEN"
    /\ nFrames = 1
    /\ StateFrame(lastFrame)
    /\ lastFrame.deviceId = "A"
    /\ lastWriter["A"].kind = "frame"
    /\ Applied(devices, lastFrame)
====
